---- MODULE Spec2Model ----
(***************************************************************************)
(* Ripple engine (ripple-engine/app): the generate, history, checkout and  *)
(* payment-webhook handlers of main.py over the User and Generation tables *)
(* of models.py, with the reply handling of generator.create_ripples.      *)
(*                                                                         *)
(* Every HTTP request is one slot of `req`.  A handler is cut into steps   *)
(* at its database reads, database commits and external calls (the sync    *)
(* endpoints run on a thread pool, so these interleave); what lies between *)
(* two such points is local computation and belongs to the step before it. *)
(***************************************************************************)
EXTENDS Integers, Sequences, FiniteSets, TLC

\* ------------------------------------------------------------------ bounds
NumUsers == 2
NumReqs == 2
MaxPosts == 2
NumLedgerReqs == 3
MaxPlatforms == 3
MaxTag == 4

Users == 1..NumUsers
Reqs == 1..NumReqs

\* ------------------------------------------------------- program constants
\* values of User.subscription_status (models.py:33)
Tiers == {"free", "pro", "canceled"}

\* main.py:134
pro_platforms == {"Twitter", "LinkedIn", "Pinterest", "Reddit"}

\* main.py:187
CompletedType == "checkout.session.completed"

\* the empty value of an Optional column / a Python None that stands for a
\* missing identifier
NoId == 0

\* ------------------------------------------------------------ JSON values
\* A JSON value as Python sees it after json.loads: a type tag and, for an
\* array, its elements.  Scalars are kept by the tag that decides their
\* truth value.
JNull == [t |-> "null", items |-> << >>]
JScalar(tag) == [t |-> tag, items |-> << >>]
JArray(s) == [t |-> "arr", items |-> s]

\* Python truthiness, as used by `if not posts` (main.py:142)
Truthy(v) ==
    \/ v.t \in {"num", "str", "true", "obj"}
    \/ v.t = "arr" /\ Len(v.items) > 0

\* An element of the social_posts array: the JSON type of the element and of
\* its three fields; `platform` and `n` tell elements apart.
Elem(et, pt, ct, ht, name, n) ==
    [t |-> et, platformT |-> pt, contentT |-> ct, hashtagsT |-> ht,
     platform |-> name, n |-> n]

PostTwitter == Elem("obj", "str", "str", "strarr", "Twitter", 1)
PostFacebook == Elem("obj", "str", "str", "strarr", "Facebook", 2)
ElemNumber == Elem("num", "absent", "absent", "absent", "", 3)
ElemBadHashtags == Elem("obj", "str", "str", "str", "Twitter", 4)

Elems == {PostTwitter, PostFacebook, ElemNumber, ElemBadHashtags}

\* the shape section 4.4 of the design asks of a post object
IsPostShaped(e) ==
    /\ e.t = "obj"
    /\ e.platformT = "str"
    /\ e.contentT = "str"
    /\ e.hashtagsT = "strarr"

SeqsUpTo(S, n) == UNION {[1..k -> S] : k \in 0..n}

\* ---------------------------------------------------- the model's replies
\* What model.generate_content / response.text / json.loads can hand to
\* create_ripples (generator.py:63-69):
\*   kind "error"   the call or response.text raised
\*   kind "notjson" the cleaned text is not JSON
\*   kind "json"    the cleaned text is JSON whose top-level value has type
\*                  `top`; for an object, `sp` is the value under
\*                  "social_posts" (tag "absent" when the key is missing)
Reply(kind, top, sp) == [kind |-> kind, top |-> top, sp |-> sp]

NoReply == Reply("none", "none", JNull)

Replies ==
    {Reply("error", "none", JNull), Reply("notjson", "none", JNull),
     Reply("json", "arr", JNull)}
    \cup {Reply("json", "obj", JScalar(tag)) : tag \in {"absent", "zero", "num"}}
    \cup {Reply("json", "obj", JArray(s)) : s \in SeqsUpTo(Elems, MaxPosts)}

\* generator.py:62-73 from the reply on: every exception is caught and turned
\* into None; otherwise the result is data.get('social_posts'), unvalidated.
create_ripples(reply) ==
    IF reply.kind # "json" THEN JNull
    ELSE IF reply.top # "obj" THEN JNull
    ELSE IF reply.sp.t = "absent" THEN JNull
    ELSE reply.sp

\* generator.py:21-27
platform_instructions ==
    [p \in {"Twitter", "LinkedIn", "Facebook", "Pinterest", "Reddit"} |->
        CASE p = "Twitter" ->
               "One 'Twitter' post. It must be engaging, under 280 characters, and use emojis."
          [] p = "LinkedIn" ->
               "One 'LinkedIn' post. It should be professional, insightful, and aimed at a business audience."
          [] p = "Facebook" ->
               "One 'Facebook' post. It should be friendly and conversational, encouraging comments and shares."
          [] p = "Pinterest" ->
               "One 'Pinterest' Pin description. It should be keyword-rich, descriptive, and inspiring, suitable for an image or infographic related to the text."
          [] p = "Reddit" ->
               "One 'Reddit' post title and body. The title should be engaging or controversial to spark discussion. The body should provide a brief summary and a question for the community."]

\* generator.py:34
GeneralPost == "One 'General' post, summarizing the key takeaways in bullet points."

\* the list without the default for an empty selection
requested_posts_no_default(platforms) ==
    LET known == SelectSeq(platforms, LAMBDA p : p \in DOMAIN platform_instructions)
    IN  [i \in 1..Len(known) |-> platform_instructions[known[i]]]

\* generator.py:29-34: one instruction for every requested name that is in
\* the table, in the caller's order; the general post when there is none
requested_posts(platforms) ==
    LET known == SelectSeq(platforms, LAMBDA p : p \in DOMAIN platform_instructions)
        listed == [i \in 1..Len(known) |-> platform_instructions[known[i]]]
    IN  IF listed = << >> THEN <<GeneralPost>> ELSE listed

\* generator.py:36-55: the prompt is fixed text around the numbered list
\* ("- {i+1}. {req}" per line) and the article, which is embedded as it is
Prompt(lines, article) == [lines |-> lines, article |-> article]

NoPrompt == Prompt(<< >>, "")

get_prompt(text, platforms) ==
    LET posts == requested_posts(platforms)
    IN  Prompt([i \in 1..Len(posts) |-> [n |-> i, req |-> posts[i]]], text)

\* the gate written with issubset for isdisjoint
EntitlementDeniedIfAllPremium(tier, platforms) ==
    /\ tier = "free"
    /\ platforms # << >>
    /\ {platforms[i] : i \in DOMAIN platforms} \subseteq pro_platforms

\* the gate without the test of the tier
EntitlementDeniedAnyTier(tier, platforms) ==
    {platforms[i] : i \in DOMAIN platforms} \cap pro_platforms # {}

\* the gate closed to every tier but pro
EntitlementDeniedUnlessPro(tier, platforms) ==
    /\ tier # "pro"
    /\ {platforms[i] : i \in DOMAIN platforms} \cap pro_platforms # {}

\* main.py:133-136: the free tier asking for any of pro_platforms
EntitlementDenied(tier, platforms) ==
    /\ tier = "free"
    /\ {platforms[i] : i \in DOMAIN platforms} \cap pro_platforms # {}

\* ------------------------------------------------------------ the inputs
Texts == {"Hello world"}

PlatformLists ==
    {<< >>, <<"Facebook">>, <<"Twitter">>, <<"Facebook", "Reddit">>,
     <<"Myspace">>, <<"Facebook", "Facebook">>}

\* The webhook body (main.py:181-189).  shape:
\*   "notjson"    json.loads raises JSONDecodeError
\*   "notobj"     JSON, but not an object
\*   "notype"     an object without "type"
\*   "nodata"     "type" only: no "data" or no "data"."object"
\*   "nometadata" data.object without "metadata"
\*   "full"       the whole envelope; uid is metadata.user_id
\* uid.t: "absent" (no user_id), "id" (int(user_id) = uid.v),
\*        "nonnumeric" (int(user_id) raises ValueError)
Uid(t, v) == [t |-> t, v |-> v]
Event(shape, type, uid) == [shape |-> shape, type |-> type, uid |-> uid]

NoEvent == Event("none", "", Uid("absent", NoId))

Events ==
    {Event(sh, "", Uid("absent", NoId)) : sh \in {"notjson", "notobj", "notype"}}
    \cup {Event("nodata", ty, Uid("absent", NoId)) :
            ty \in {CompletedType, "invoice.paid"}}
    \cup {Event("nometadata", CompletedType, Uid("absent", NoId))}
    \cup {Event("full", "invoice.paid", Uid("id", 1))}
    \cup {Event("full", CompletedType, Uid("id", u)) : u \in 1..(NumUsers + 1)}
    \cup {Event("full", CompletedType, Uid("absent", NoId)),
          Event("full", CompletedType, Uid("nonnumeric", NoId))}

\* ------------------------------------------------------------- the state
VARIABLES
    users,              \* the User table: id -> row (models.py:25-38)
    generations,        \* the Generation table, in insertion order
    stripe_customers,   \* Stripe's customer records: id -> email of the owner
    req                 \* the requests: slot -> position and locals

vars == <<users, generations, stripe_customers, req>>

\* a User row (models.py:32-34); id and email are the key
UserRow(tier, cust, usage) ==
    [subscription_status |-> tier, stripe_customer_id |-> cust,
     usage_count |-> usage]

\* the ORM object a handler holds: the row as read, with its id
Loaded(id) ==
    [id |-> id,
     subscription_status |-> users[id].subscription_status,
     stripe_customer_id |-> users[id].stripe_customer_id,
     usage_count |-> users[id].usage_count]

NoUser ==
    [id |-> NoId, subscription_status |-> "", stripe_customer_id |-> NoId,
     usage_count |-> 0]

\* a Generation row (models.py:9-19)
Generation(id, text, posts, platforms, created_at, owner) ==
    [id |-> id, original_text |-> text, generated_posts |-> posts,
     selected_platforms |-> platforms, created_at |-> created_at,
     owner_id |-> owner]

\* an HTTP response: status code, and the body fields the handlers fill
Response(code, posts, gens, customer) ==
    [code |-> code, posts |-> posts, gens |-> gens, customer |-> customer]

NoResponse == Response(0, JNull, << >>, NoId)
HTTPException(code) == Response(code, JNull, << >>, NoId)

Idle ==
    [pc |-> "idle", kind |-> "none", text |-> "", platforms |-> << >>,
     event |-> NoEvent, current_user |-> NoUser, reply |-> NoReply,
     posts |-> JNull, customer |-> NoId, calls |-> 0,
     storage_error |-> FALSE, resp |-> NoResponse,
     prompt |-> NoPrompt, created_at |-> 0, raw |-> << >>, body |-> ""]

\* Freshly registered users (models.py:32-34 defaults) and users whose
\* subscription was canceled: no handler writes "canceled", the column
\* carries it from the billing side (models.py:33).
Init ==
    /\ users \in [Users -> {UserRow(t, NoId, 0) : t \in {"free", "canceled"}}]
    /\ generations = << >>
    /\ stripe_customers = << >>
    /\ req = [r \in Reqs |-> Idle]

\* slots are numbered in order of arrival: slot r is the r-th request
Arrives(r) ==
    /\ req[r].pc = "idle"
    /\ \A q \in 1..(r - 1) : req[q].pc # "idle"

\* the request in slot r finishes with response rsp
Done(r, rsp) == [req[r] EXCEPT !.pc = "done", !.resp = rsp]

\* --------------------------------------------------------- POST /generate
\* the gate with a usage meter in front of it
GenGateMetered(r) ==
    /\ Arrives(r)
    /\ \E u \in Users, text \in Texts, platforms \in PlatformLists :
         LET cu == Loaded(u)
             started == [req[r] EXCEPT !.kind = "generate", !.text = text,
                            !.platforms = platforms, !.current_user = cu]
         IN  /\ users' = [users EXCEPT ![u].usage_count = @ + 1]
             /\ req' = [req EXCEPT ![r] =
                 IF EntitlementDenied(cu.subscription_status, platforms)
                 THEN [started EXCEPT !.pc = "done", !.resp = HTTPException(403)]
                 ELSE [started EXCEPT !.pc = "gen_model"]]
    /\ UNCHANGED <<generations, stripe_customers>>

\* main.py:131-140 with get_current_user (main.py:75-89): the request
\* arrives, the caller's row is read, the gate decides.
GenGate(r) ==
    /\ Arrives(r)
    /\ \E u \in Users, text \in Texts, platforms \in PlatformLists :
         LET cu == Loaded(u)
             started == [req[r] EXCEPT !.kind = "generate", !.text = text, !.platforms = platforms,
                            !.current_user = cu]
         IN  req' = [req EXCEPT ![r] =
                 IF EntitlementDenied(cu.subscription_status, platforms)
                 THEN [started EXCEPT !.pc = "done", !.resp = HTTPException(403)]
                 ELSE [started EXCEPT !.pc = "gen_model"]]
    /\ UNCHANGED <<users, generations, stripe_customers>>

\* models.py:14: datetime.utcnow when a Generation object is made; the clock
\* is read as the number of objects made before, plus one
utcnow == 1 + Cardinality({q \in DOMAIN req : req[q].created_at > 0})

\* the model called again when the first call gave nothing
GenModelRetrying(r) ==
    /\ req[r].pc = "gen_model"
    /\ \E reply \in Replies :
         LET posts == create_ripples(reply)
             called == [req[r] EXCEPT !.calls = @ + 1, !.reply = reply,
                           !.posts = posts,
                           !.prompt = get_prompt(req[r].text, req[r].platforms)]
         IN  req' = [req EXCEPT ![r] =
                 IF ~Truthy(posts)
                 THEN IF req[r].calls = 0 THEN called
                      ELSE [called EXCEPT !.pc = "done",
                                          !.resp = HTTPException(500)]
                 ELSE [called EXCEPT !.pc = "gen_commit",
                                     !.created_at = utcnow]]
    /\ UNCHANGED <<users, generations, stripe_customers>>

\* main.py:141-149 with generator.create_ripples (generator.py:57-73): the
\* prompt is built, the external model is called once, its reply is turned
\* into posts, `if not posts` is checked and the Generation object is made.
GenModel(r) ==
    /\ req[r].pc = "gen_model"
    /\ \E reply \in Replies :
         LET posts == create_ripples(reply)
             called == [req[r] EXCEPT !.calls = @ + 1, !.reply = reply,
                           !.posts = posts,
                           !.prompt = get_prompt(req[r].text, req[r].platforms)]
         IN  req' = [req EXCEPT ![r] =
                 IF ~Truthy(posts)
                 THEN [called EXCEPT !.pc = "done", !.resp = HTTPException(500)]
                 ELSE [called EXCEPT !.pc = "gen_commit",
                                     !.created_at = utcnow]]
    /\ UNCHANGED <<users, generations, stripe_customers>>

\* main.py:150-152, commit succeeding: the row is inserted and the posts are
\* returned.
GenCommit(r) ==
    /\ req[r].pc = "gen_commit"
    /\ generations' = Append(generations,
          Generation(Len(generations) + 1, req[r].text, req[r].posts,
                     req[r].platforms, req[r].created_at,
                     req[r].current_user.id))
    /\ req' = [req EXCEPT ![r] =
          Done(r, Response(200, req[r].posts, << >>, NoId))]
    /\ UNCHANGED <<users, stripe_customers>>

\* main.py:150-151, commit raising (database locked, disk full): nothing
\* catches it, the transaction is rolled back and the framework answers 500.
GenCommitFails(r) ==
    /\ req[r].pc = "gen_commit"
    /\ req' = [req EXCEPT ![r] =
          [Done(r, HTTPException(500)) EXCEPT !.storage_error = TRUE]]
    /\ UNCHANGED <<users, generations, stripe_customers>>

\* -------------------------------------------------------- GET /generations
\* main.py:154-155 with get_current_user (main.py:75-89)
HistAuth(r) ==
    /\ Arrives(r)
    /\ \E u \in Users :
         req' = [req EXCEPT ![r] =
             [req[r] EXCEPT !.kind = "history", !.current_user = Loaded(u),
                            !.pc = "hist_read"]]
    /\ UNCHANGED <<users, generations, stripe_customers>>

\* models.py:37-38: the relationship loads the rows whose owner_id is the
\* user's id, with no ORDER BY: they come in insertion order.
generations_of(id) == SelectSeq(generations, LAMBDA g : g.owner_id = id)

\* main.py:156
HistRead(r) ==
    /\ req[r].pc = "hist_read"
    /\ req' = [req EXCEPT ![r] =
          Done(r, Response(200, JNull,
                           generations_of(req[r].current_user.id), NoId))]
    /\ UNCHANGED <<users, generations, stripe_customers>>

\* ------------------------------------------- POST /create-checkout-session
\* main.py:158-161 with get_current_user (main.py:75-89)
CoAuth(r) ==
    /\ Arrives(r)
    /\ \E u \in Users :
         LET cu == Loaded(u)
         IN  req' = [req EXCEPT ![r] =
                 [req[r] EXCEPT !.kind = "checkout", !.current_user = cu,
                     !.pc = IF cu.stripe_customer_id = NoId
                            THEN "co_customer" ELSE "co_session"]]
    /\ UNCHANGED <<users, generations, stripe_customers>>

\* main.py:162: stripe.Customer.create makes a new customer record
CoCustomer(r) ==
    /\ req[r].pc = "co_customer"
    /\ stripe_customers' = Append(stripe_customers, req[r].current_user.id)
    /\ req' = [req EXCEPT ![r] =
          [req[r] EXCEPT !.customer = Len(stripe_customers) + 1,
                         !.pc = "co_commit"]]
    /\ UNCHANGED <<users, generations>>

\* the commit writing the whole row as the handler read it
CoCommitWholeRow(r) ==
    /\ req[r].pc = "co_commit"
    /\ LET cu == req[r].current_user
       IN  /\ users' = [users EXCEPT ![cu.id] =
                 UserRow(cu.subscription_status, req[r].customer, cu.usage_count)]
           /\ req' = [req EXCEPT ![r] =
                 [req[r] EXCEPT !.pc = "co_session",
                     !.current_user = [cu EXCEPT !.stripe_customer_id = req[r].customer]]]
    /\ UNCHANGED <<generations, stripe_customers>>

\* main.py:163-166: the UPDATE writes the one changed column, whatever the
\* row holds by now; refresh reads the row back.
CoCommit(r) ==
    /\ req[r].pc = "co_commit"
    /\ LET id == req[r].current_user.id
       IN  /\ users' = [users EXCEPT ![id].stripe_customer_id = req[r].customer]
           /\ req' = [req EXCEPT ![r] =
                 [req[r] EXCEPT !.pc = "co_session",
                     !.current_user =
                         [Loaded(id) EXCEPT !.stripe_customer_id = req[r].customer]]]
    /\ UNCHANGED <<generations, stripe_customers>>

\* main.py:167-175: stripe.checkout.Session.create for the customer the
\* handler holds
CoSession(r) ==
    /\ req[r].pc = "co_session"
    /\ req' = [req EXCEPT ![r] =
          Done(r, Response(200, JNull, << >>,
                           req[r].current_user.stripe_customer_id))]
    /\ UNCHANGED <<users, generations, stripe_customers>>

\* main.py:176-177: either Stripe call raising is answered 500
CoStripeFails(r) ==
    /\ req[r].pc \in {"co_customer", "co_session"}
    /\ req' = [req EXCEPT ![r] = Done(r, HTTPException(500))]
    /\ UNCHANGED <<users, generations, stripe_customers>>

\* ---------------------------------------------------- POST /stripe-webhook
\* the route without the test of the event type
webhook_route_any_type(event) ==
    IF event.shape = "notjson" THEN 400
    ELSE IF event.shape \in {"notobj", "notype"} THEN 500
    ELSE IF event.shape = "nodata" THEN 500
    ELSE IF event.shape = "nometadata" THEN 200
    ELSE IF event.uid.t = "absent" THEN 200
    ELSE IF event.uid.t = "nonnumeric" THEN 500
    ELSE 0

\* main.py:183-190 and 192 (int(user_id)) as a function of the body:
\* the status code the handler ends with before touching the database, or 0
\* when it goes on to look the user up.
webhook_route(event) ==
    IF event.shape = "notjson" THEN 400
    ELSE IF event.shape \in {"notobj", "notype"} THEN 500
    ELSE IF event.type # CompletedType THEN 200
    ELSE IF event.shape = "nodata" THEN 500
    ELSE IF event.shape = "nometadata" THEN 200
    ELSE IF event.uid.t = "absent" THEN 200
    ELSE IF event.uid.t = "nonnumeric" THEN 500
    ELSE 0

\* main.py:179-190: the body arrives and is parsed and routed
WhParse(r) ==
    /\ Arrives(r)
    /\ \E event \in Events :
         LET started == [req[r] EXCEPT !.kind = "webhook", !.event = event]
             code == webhook_route(event)
         IN  req' = [req EXCEPT ![r] =
                 IF code # 0
                 THEN [started EXCEPT !.pc = "done",
                                      !.resp = Response(code, JNull, << >>, NoId)]
                 ELSE [started EXCEPT !.pc = "wh_get"]]
    /\ UNCHANGED <<users, generations, stripe_customers>>

\* main.py:191-193: db_session.get(models.User, int(user_id))
WhGet(r) ==
    /\ req[r].pc = "wh_get"
    /\ LET id == req[r].event.uid.v
       IN  req' = [req EXCEPT ![r] =
               IF id \in DOMAIN users
               THEN [req[r] EXCEPT !.current_user = Loaded(id),
                                   !.pc = "wh_commit"]
               ELSE Done(r, Response(200, JNull, << >>, NoId))]
    /\ UNCHANGED <<users, generations, stripe_customers>>

\* the upgrade that also counts the event
WhCommitCounting(r) ==
    /\ req[r].pc = "wh_commit"
    /\ LET user == req[r].current_user
       IN  users' = [users EXCEPT ![user.id].subscription_status = "pro",
                                  ![user.id].usage_count = @ + 1]
    /\ req' = [req EXCEPT ![r] = Done(r, Response(200, JNull, << >>, NoId))]
    /\ UNCHANGED <<generations, stripe_customers>>

\* main.py:194-198: the UPDATE is emitted when the loaded status was not
\* already "pro", and writes that one column.
WhCommit(r) ==
    /\ req[r].pc = "wh_commit"
    /\ LET user == req[r].current_user
       IN  users' = IF user.subscription_status = "pro" THEN users
                    ELSE [users EXCEPT ![user.id].subscription_status = "pro"]
    /\ req' = [req EXCEPT ![r] = Done(r, Response(200, JNull, << >>, NoId))]
    /\ UNCHANGED <<generations, stripe_customers>>

\* ------------------------------------------------------ the specification
Next ==
    \E r \in Reqs :
        \/ GenGate(r)
        \/ GenModel(r)
        \/ GenCommit(r)
        \/ GenCommitFails(r)
        \/ HistAuth(r)
        \/ HistRead(r)
        \/ CoAuth(r)
        \/ CoCustomer(r)
        \/ CoCommit(r)
        \/ CoSession(r)
        \/ CoStripeFails(r)
        \/ WhParse(r)
        \/ WhGet(r)
        \/ WhCommit(r)

Spec == Init /\ [][Next]_vars

\* ------------------------------------- the ledger, three requests in a row
\* The same handlers with one more request and one input each, so that a
\* caller can store two generations and then ask for its history.
LedgerReqs == 1..NumLedgerReqs

InitLedger ==
    /\ users = [u \in Users |-> UserRow("free", NoId, 0)]
    /\ generations = << >>
    /\ stripe_customers = << >>
    /\ req = [r \in LedgerReqs |-> Idle]

LedgerGenGate(r) ==
    /\ GenGate(r)
    /\ req'[r].platforms = <<"Facebook">>

LedgerGenModel(r) ==
    /\ GenModel(r)
    /\ req'[r].reply = Reply("json", "obj", JArray(<<PostFacebook>>))

NextLedger ==
    \E r \in LedgerReqs :
        \/ LedgerGenGate(r)
        \/ LedgerGenModel(r)
        \/ GenCommit(r)
        \/ HistAuth(r)
        \/ HistRead(r)

SpecLedger == InitLedger /\ [][NextLedger]_vars

\* ------------------------------------------------- get_prompt on its own
PlatformNames == DOMAIN platform_instructions \cup {"Myspace"}

InitPrompt ==
    /\ users = [u \in Users |-> UserRow("free", NoId, 0)]
    /\ generations = << >>
    /\ stripe_customers = << >>
    /\ req \in {[r \in {1} |->
                  [Idle EXCEPT !.kind = "prompt", !.pc = "get_prompt",
                               !.text = text, !.platforms = platforms]] :
                text \in Texts,
                platforms \in SeqsUpTo(PlatformNames, MaxPlatforms)}

\* generator.py:64
BuildPrompt(r) ==
    /\ req[r].pc = "get_prompt"
    /\ req' = [req EXCEPT ![r] =
          [req[r] EXCEPT !.pc = "prompted",
                         !.prompt = get_prompt(req[r].text, req[r].platforms)]]
    /\ UNCHANGED <<users, generations, stripe_customers>>

NextPrompt == \E r \in DOMAIN req : BuildPrompt(r)

SpecPrompt == InitPrompt /\ [][NextPrompt]_vars

\* ------------------------------------- the reply text, from text to posts
\* A text is a sequence of characters.  A JSON document that starts with a
\* brace is kept as one character: neither strip nor the two character sets
\* of generator.py:67 can take its first or last character away.
DocPosts == "{\"social_posts\": [{\"platform\": \"Twitter\", \"content\": \"c\", \"hashtags\": [\"h\"]}]}"
DocEmpty == "{}"
Bodies == {DocPosts, DocEmpty, "null"}

BodyText(body) == IF body = "null" THEN <<"n", "u", "l", "l">> ELSE <<body>>

Whitespace == {" ", "\n", "\t", "\r"}

\* the backquote character of a fence
Backquote == "BACKQUOTE"

\* str.lstrip(chars), str.rstrip(chars): leading, trailing characters of the
\* set are removed, one by one
RECURSIVE lstrip(_, _)
lstrip(s, chars) ==
    IF s # << >> /\ Head(s) \in chars THEN lstrip(Tail(s), chars) ELSE s

RECURSIVE rstrip(_, _)
rstrip(s, chars) ==
    IF s # << >> /\ s[Len(s)] \in chars
    THEN rstrip(SubSeq(s, 1, Len(s) - 1), chars) ELSE s

\* str.strip()
strip(s) == rstrip(lstrip(s, Whitespace), Whitespace)

\* generator.py:67: strip(), then lstrip of the characters of the opening
\* fence with the tag json, then rstrip of the character of the closing fence
cleaned_json(text) ==
    rstrip(lstrip(strip(text), {Backquote, "j", "s", "o", "n"}), {Backquote})

\* generator.py:68: json.loads, which allows white space around the document
json_loads(text) ==
    LET doc == strip(text)
    IN  IF doc = <<DocPosts>>
        THEN Reply("json", "obj", JArray(<<PostTwitter>>))
        ELSE IF doc = <<DocEmpty>>
        THEN Reply("json", "obj", JScalar("absent"))
        ELSE IF doc = <<"n", "u", "l", "l">>
        THEN Reply("json", "null", JNull)
        ELSE Reply("notjson", "none", JNull)

\* a reply between a leading fence with a language tag and a trailing fence
Fence == <<Backquote, Backquote, Backquote>>
Fenced(tag, before, body, after) ==
    Fence \o tag \o before \o BodyText(body) \o after \o Fence

Tags ==
    SeqsUpTo({"j", "s", "o", "n", "p"}, MaxTag)
    \cup {<<"p", "y", "t", "h", "o", "n">>}

InitFence ==
    /\ users = [u \in Users |-> UserRow("free", NoId, 0)]
    /\ generations = << >>
    /\ stripe_customers = << >>
    /\ req \in {[r \in {1} |->
                  [Idle EXCEPT !.kind = "parse", !.pc = "response",
                               !.raw = Fenced(tag, before, body, after),
                               !.body = body]] :
                tag \in Tags, body \in Bodies,
                before \in {<< >>, <<"\n">>}, after \in {<< >>, <<"\n">>}}

\* generator.py:67-69
ParseResponse(r) ==
    /\ req[r].pc = "response"
    /\ LET reply == json_loads(cleaned_json(req[r].raw))
       IN  req' = [req EXCEPT ![r] =
               [req[r] EXCEPT !.pc = "parsed", !.reply = reply,
                              !.posts = create_ripples(reply)]]
    /\ UNCHANGED <<users, generations, stripe_customers>>

NextFence == \E r \in DOMAIN req : ParseResponse(r)

SpecFence == InitFence /\ [][NextFence]_vars

TypeOK ==
    /\ users \in [Users -> [subscription_status : Tiers,
                            stripe_customer_id : 0..(NumReqs + 1),
                            usage_count : {0}]]
    /\ \A r \in Reqs : req[r].pc \in
          {"idle", "gen_model", "gen_commit", "hist_read", "co_customer",
           "co_commit", "co_session", "wh_get", "wh_commit", "done"}

\* ------------------------------------------------------------- properties
PremiumNames == {"Twitter", "LinkedIn", "Pinterest", "Reddit"}

AsksPremium(platforms) ==
    \E i \in DOMAIN platforms : platforms[i] \in PremiumNames

\* request r took a step
Stepped(r) == req'[r] # req[r]

CustomersOf(custs, u) == {c \in DOMAIN custs : custs[c] = u}

\* C1: a generate request of a caller read as free that asks for a premium
\* platform ends denied (403), and the external model is never called for it,
\* whatever the other requests do.
C1_FreePremiumDeniedBeforeModel ==
    \A r \in Reqs :
        ( /\ req[r].kind = "generate"
          /\ req[r].current_user.subscription_status = "free"
          /\ AsksPremium(req[r].platforms) )
        => /\ req[r].pc = "done"
           /\ req[r].resp.code = 403
           /\ req[r].calls = 0
           /\ req[r].reply = NoReply

\* a denied request next to a request that did reach the model
C1_Witness ==
    \E r, q \in Reqs :
        /\ req[r].kind = "generate"
        /\ req[r].current_user.subscription_status = "free"
        /\ AsksPremium(req[r].platforms)
        /\ req[r].resp.code = 403
        /\ req[q].kind = "generate"
        /\ req[q].calls = 1

\* C2: the step that denies a generate request changes no User row and adds
\* no Generation row.
C2_DenialChangesNothing ==
    [][ \A r \in Reqs :
          ( /\ Stepped(r)
            /\ req'[r].kind = "generate"
            /\ req'[r].resp.code = 403 )
          => /\ users' = users
             /\ generations' = generations ]_vars

\* a denial after a generation was stored
C2_Witness ==
    \E r \in Reqs :
        /\ req[r].kind = "generate"
        /\ req[r].resp.code = 403
        /\ Len(generations) > 0

\* C3: when the model call and the parsing succeeded and only the write of
\* the Generation row failed, the caller gets a success response with the
\* posts.
C3_StorageFailureStillReturnsPosts ==
    \A r \in Reqs :
        req[r].storage_error
        => /\ req[r].resp.code = 200
           /\ req[r].resp.posts = req[r].posts

\* C4: a principal never has more than one Stripe customer made for it, and
\* its stored customer reference, once set, is never overwritten.
C4_CustomerClaimedOnce ==
    [][ \A u \in Users :
          /\ Cardinality(CustomersOf(stripe_customers', u)) <= 1
          /\ users[u].stripe_customer_id # NoId
             => users'[u].stripe_customer_id = users[u].stripe_customer_id ]_vars

\* C5: every step of a webhook delivery whose completion event names an
\* existing principal u changes nothing but u's tier; on a principal that is
\* already pro (a replay) it changes nothing at all; and the delivery ends
\* acknowledged with 200 and u at pro.
C5_ReplayIsIdempotent ==
    [][ \A r \in Reqs :
          ( /\ Stepped(r)
            /\ req'[r].kind = "webhook"
            /\ req'[r].event.shape = "full"
            /\ req'[r].event.type = CompletedType
            /\ req'[r].event.uid.t = "id"
            /\ req'[r].event.uid.v \in Users )
          => LET u == req'[r].event.uid.v
             IN  /\ generations' = generations
                 /\ stripe_customers' = stripe_customers
                 /\ \A v \in Users \ {u} : users'[v] = users[v]
                 /\ users'[u].stripe_customer_id = users[u].stripe_customer_id
                 /\ users'[u].usage_count = users[u].usage_count
                 /\ users[u].subscription_status = "pro" => users' = users
                 /\ req'[r].pc = "done"
                    => /\ req'[r].resp.code = 200
                       /\ users'[u].subscription_status = "pro" ]_vars

\* the same completion event delivered twice, both deliveries finished
C5_Witness ==
    \E r, q \in Reqs :
        /\ r # q
        /\ req[r].kind = "webhook"
        /\ req[r].event = req[q].event
        /\ req[r].event.shape = "full"
        /\ req[r].event.type = CompletedType
        /\ req[r].event.uid.t = "id"
        /\ req[r].event.uid.v \in Users
        /\ req[r].pc = "done"
        /\ req[q].pc = "done"
        /\ req[r].resp.code = 200
        /\ req[q].resp.code = 200
        /\ users[req[r].event.uid.v].subscription_status = "pro"

\* C6: for a reply that is an object with an array under the posts key, the
\* posts of the request are exactly the post-shaped elements of the array, in
\* order; when there is none the request fails.
C6_ParserKeepsTheValidPosts ==
    \A r \in Reqs :
        ( /\ req[r].kind = "generate"
          /\ req[r].reply.kind = "json"
          /\ req[r].reply.top = "obj"
          /\ req[r].reply.sp.t = "arr" )
        => LET valid == SelectSeq(req[r].reply.sp.items, IsPostShaped)
           IN  IF valid = << >>
               THEN req[r].pc = "done" /\ req[r].resp.code = 500
               ELSE req[r].posts = JArray(valid)

\* C7: every stored Generation holds a non-empty sequence of posts.
C7_StoredPostsNonEmptySequence ==
    \A i \in DOMAIN generations :
        /\ generations[i].generated_posts.t = "arr"
        /\ Len(generations[i].generated_posts.items) > 0

\* C8: the webhook answers 400 to a body that is not JSON and 200 to every
\* body that is JSON.
C8_WebhookAcknowledgesEveryJsonBody ==
    \A r \in Reqs :
        (req[r].kind = "webhook" /\ req[r].pc = "done")
        => IF req[r].event.shape = "notjson"
           THEN req[r].resp.code = 400
           ELSE req[r].resp.code = 200

\* C9: a step of a webhook delivery changes the stored state only when the
\* event is of the completion type and its user_id is the id of an existing
\* principal, and then the only change is that principal's tier becoming pro.
C9_WebhookOnlyUpgradesTheNamedPrincipal ==
    [][ \A r \in Reqs :
          (Stepped(r) /\ req'[r].kind = "webhook")
          => \/ /\ users' = users
                /\ generations' = generations
                /\ stripe_customers' = stripe_customers
             \/ /\ req'[r].event.type = CompletedType
                /\ req'[r].event.uid.t = "id"
                /\ req'[r].event.uid.v \in Users
                /\ users' = [users EXCEPT
                      ![req'[r].event.uid.v].subscription_status = "pro"]
                /\ generations' = generations
                /\ stripe_customers' = stripe_customers ]_vars

\* a finished delivery of another event type naming principal 1, who is not
\* pro, next to a finished completion event that made its principal pro
C9_Witness ==
    \E r, q \in Reqs :
        /\ req[r].kind = "webhook"
        /\ req[r].pc = "done"
        /\ req[r].event.shape = "full"
        /\ req[r].event.type # CompletedType
        /\ req[r].event.uid.t = "id"
        /\ users[req[r].event.uid.v].subscription_status # "pro"
        /\ req[q].kind = "webhook"
        /\ req[q].pc = "done"
        /\ req[q].event.type = CompletedType
        /\ req[q].event.uid.t = "id"
        /\ req[q].event.uid.v \in Users
        /\ users[req[q].event.uid.v].subscription_status = "pro"

C11_SuccessStoresOneGeneration ==
    /\ \A r \in Reqs :
         ( /\ req[r].kind = "generate"
           /\ req[r].pc = "done"
           /\ req[r].posts.t = "arr"
           /\ Len(req[r].posts.items) > 0 )
         => /\ req[r].resp.code = 200
            /\ req[r].resp.posts = req[r].posts
            /\ \E i \in DOMAIN generations :
                 /\ generations[i].owner_id = req[r].current_user.id
                 /\ generations[i].original_text = req[r].text
                 /\ generations[i].selected_platforms = req[r].platforms
                 /\ generations[i].generated_posts = req[r].posts
    /\ Len(generations) =
         Cardinality({r \in Reqs : req[r].kind = "generate"
                                   /\ req[r].resp.code = 200})

\* C12: a generate request whose model call failed, or whose reply is not
\* JSON, not an object, or has no array under the posts key, ends with 500
\* at that point and never reaches the write of a Generation row.
C12_InvalidReplyFailsTheRequest ==
    \A r \in Reqs :
        ( /\ req[r].kind = "generate"
          /\ req[r].calls > 0
          /\ \/ req[r].reply.kind # "json"
             \/ req[r].reply.top # "obj"
             \/ req[r].reply.sp.t # "arr" )
        => /\ req[r].pc = "done"
           /\ req[r].resp.code = 500
           /\ ~req[r].storage_error

\* the request went on from the gate to the model call
ReachedModel(r) == req[r].pc = "gen_model" \/ req[r].calls > 0

\* C17: a generate request of a caller read as pro, or asking for no premium
\* platform (Facebook, unknown names, the empty list), is not denied and goes
\* on to the model call.
C17_GateAllowsProAndNonPremium ==
    \A r \in Reqs :
        ( /\ req[r].kind = "generate"
          /\ \/ req[r].current_user.subscription_status = "pro"
             \/ ~AsksPremium(req[r].platforms) )
        => /\ req[r].resp.code # 403
           /\ ReachedModel(r)

\* a pro caller asking for a premium platform whose request called the model
C17_Witness ==
    \E r \in Reqs :
        /\ req[r].kind = "generate"
        /\ req[r].current_user.subscription_status = "pro"
        /\ AsksPremium(req[r].platforms)
        /\ req[r].calls = 1

\* C19: no request calls the external model more than once, and only
\* generate requests call it.
C19_ModelCalledAtMostOnce ==
    \A r \in Reqs :
        /\ req[r].calls <= 1
        /\ req[r].kind # "generate" => req[r].calls = 0

\* a request that ended in failure after its one call of the model failed
C19_Witness ==
    \E r \in Reqs :
        /\ req[r].kind = "generate"
        /\ req[r].pc = "done"
        /\ req[r].reply.kind = "error"
        /\ req[r].resp.code = 500
        /\ req[r].calls = 1

\* C20: a generate request of a caller whose tier is read as anything but
\* free (canceled, say) and that asks for a premium platform is not denied
\* and goes on to the model call.
C20_OnlyFreeIsDenied ==
    \A r \in Reqs :
        ( /\ req[r].kind = "generate"
          /\ req[r].current_user.subscription_status # "free"
          /\ AsksPremium(req[r].platforms) )
        => /\ req[r].resp.code # 403
           /\ ReachedModel(r)

\* a canceled caller asking for a premium platform whose request called the
\* model
C20_Witness ==
    \E r \in Reqs :
        /\ req[r].kind = "generate"
        /\ req[r].current_user.subscription_status = "canceled"
        /\ AsksPremium(req[r].platforms)
        /\ req[r].calls = 1

\* the rows of the table owned by principal u
OwnedBy(u) ==
    {g \in {generations[i] : i \in DOMAIN generations} : g.owner_id = u}

\* C13: the history a principal is answered with holds exactly the rows it
\* owns at the time of the read, each once, the most recently created first.
C13_HistoryNewestFirst ==
    [][ \A r \in DOMAIN req :
          (req[r].pc = "hist_read" /\ req'[r].pc = "done")
          => LET gens == req'[r].resp.gens
             IN  /\ {gens[i] : i \in DOMAIN gens} = OwnedBy(req[r].current_user.id)
                 /\ Len(gens) = Cardinality(OwnedBy(req[r].current_user.id))
                 /\ \A i, j \in DOMAIN gens :
                      i < j => gens[i].created_at > gens[j].created_at ]_vars

\* first occurrences of the names of a list, in order
RECURSIVE Collapsed(_)
Collapsed(s) ==
    IF s = << >> THEN << >>
    ELSE LET init == Collapsed(SubSeq(s, 1, Len(s) - 1))
             last == s[Len(s)]
         IN  IF \E i \in DOMAIN init : init[i] = last THEN init
             ELSE Append(init, last)

\* C18: the platform list of every stored Generation names no platform twice
\* and is the requested list of its request with duplicates collapsed to
\* their first occurrence.
C18_StoredPlatformsCollapsed ==
    /\ \A g \in DOMAIN generations :
         LET sp == generations[g].selected_platforms
         IN  \A i, j \in DOMAIN sp : i # j => sp[i] # sp[j]
    /\ \A r \in Reqs :
         (req[r].kind = "generate" /\ req[r].resp.code = 200)
         => \E g \in DOMAIN generations :
              /\ generations[g].created_at = req[r].created_at
              /\ generations[g].selected_platforms = Collapsed(req[r].platforms)

\* the requested names that have an instruction, in the caller's order
Recognized(platforms) ==
    SelectSeq(platforms,
              LAMBDA p : p \in {"Twitter", "LinkedIn", "Facebook", "Pinterest",
                                "Reddit"})

\* C14: when a recognized platform is requested, the numbered list of the
\* prompt has one instruction for each distinct recognized platform, in the
\* order of first occurrence, and the article is the text given.
C14_OneInstructionPerDistinctPlatform ==
    \A r \in DOMAIN req :
        (req[r].pc = "prompted" /\ Recognized(req[r].platforms) # << >>)
        => LET names == Collapsed(Recognized(req[r].platforms))
           IN  /\ req[r].prompt.lines =
                    [i \in 1..Len(names) |->
                        [n |-> i, req |-> platform_instructions[names[i]]]]
               /\ req[r].prompt.article = req[r].text

\* C15: the numbered list of the prompt is the one general-summary
\* instruction when no recognized platform is requested, and does not hold
\* that instruction when one is.
C15_FallbackOnlyWithoutRecognizedPlatform ==
    \A r \in DOMAIN req :
        req[r].pc = "prompted"
        => LET general ==
                 "One 'General' post, summarizing the key takeaways in bullet points."
               lines == req[r].prompt.lines
           IN  IF Recognized(req[r].platforms) = << >>
               THEN lines = <<[n |-> 1, req |-> general]>>
               ELSE /\ Len(lines) > 0
                    /\ \A i \in DOMAIN lines : lines[i].req # general

\* a prompt built for a non-empty list of unknown names
C15_Witness ==
    \E r \in DOMAIN req :
        /\ req[r].pc = "prompted"
        /\ Len(req[r].platforms) > 1
        /\ Recognized(req[r].platforms) = << >>
        /\ Len(req[r].prompt.lines) = 1

\* C16: the posts parsed from a reply wrapped in a leading fence, with any
\* language tag or none, and a trailing fence are the posts parsed from the
\* same body without fences.
C16_FencedParsesLikeUnfenced ==
    \A r \in DOMAIN req :
        req[r].pc = "parsed"
        => req[r].posts =
             create_ripples(json_loads(cleaned_json(BodyText(req[r].body))))

====
